---- MODULE Spec2Model ----
(***************************************************************************)
(* Batch LLM-annotation pipeline of quote-label-wizard.                    *)
(*                                                                         *)
(* Text is modelled as a sequence of one-character strings, so that the    *)
(* CSV parser, the CSV writer and the label matcher are computed character *)
(* by character as the TypeScript does.                                    *)
(***************************************************************************)
EXTENDS Integers, Sequences, FiniteSets, TLC

(***************************************************************************)
(* Bounds of the model.                                                    *)
(***************************************************************************)
\* largest number of data rows of an uploaded file
MaxRows == 4
\* largest number of process-queue invocations in one behaviour
MaxInvocations == 2
\* wall-clock budget (in clock ticks) the specification attributes to one invocation
Budget == 1
\* largest number of job-store calls that fail in one behaviour
MaxStoreErrors == 1
\* largest number of fields of a CSV that is written and parsed back
MaxCells == 3
\* largest number of files of one extract-quotes request
MaxFiles == 2
\* largest number of blank-line-separated pieces of one text file
MaxParagraphs == 3
\* largest number of labels of a label list
MaxLabels == 2
\* largest number of characters of a text given to parseCSV character by character
MaxTextLen == 4

(***************************************************************************)
(* Program constants (scaled: the source uses 100, 10, 5 and 10).          *)
(***************************************************************************)
\* process-queue: rows per chunk
chunkSize == 3
\* process-queue: concurrent requests per batch
batchSize == 2
\* process-spreadsheet: concurrent requests per batch
directBatchSize == 2
\* extract-quotes: a quote is kept when it is longer than this (the source uses 10)
minQuoteLength == 0
\* extract-quotes: the size chunks are aimed at (the source uses 2000)
maxChunkSize == 4
\* extract-quotes: a chunk shorter than this is skipped (the source uses 100)
minChunkLength == 2

NULL == "null"
\* new Date().toISOString(): some time, as opposed to the 0 of a timestamp not set
now == 1
MaxElapsed == Budget + 1

Min(a, b) == IF a < b THEN a ELSE b

(***************************************************************************)
(* Strings.                                                                *)
(***************************************************************************)
Whitespace == {" ", "\n", "\r", "\t"}

\* String.prototype.toLowerCase, one character
lowerChar(c) == IF c = "A" THEN "a" ELSE IF c = "B" THEN "b" ELSE IF c = "X" THEN "x"
                ELSE IF c = "L" THEN "l" ELSE IF c = "S" THEN "s" ELSE IF c = "C" THEN "c"
                ELSE IF c = "V" THEN "v" ELSE c

toLowerCase(s) == [k \in 1..Len(s) |-> lowerChar(s[k])]

RECURSIVE trimStart(_)
trimStart(s) == IF s # <<>> /\ Head(s) \in Whitespace THEN trimStart(Tail(s)) ELSE s

RECURSIVE trimEnd(_)
trimEnd(s) == IF s # <<>> /\ s[Len(s)] \in Whitespace THEN trimEnd(SubSeq(s, 1, Len(s) - 1)) ELSE s

\* String.prototype.trim
trim(s) == trimEnd(trimStart(s))

\* String.prototype.includes
includes(hay, needle) ==
  \E k \in 0..(Len(hay) - Len(needle)) : SubSeq(hay, k + 1, k + Len(needle)) = needle

\* String.prototype.endsWith
endsWith(s, suffix) ==
  Len(s) >= Len(suffix) /\ SubSeq(s, Len(s) - Len(suffix) + 1, Len(s)) = suffix

RECURSIVE join(_, _)
\* Array.prototype.join
join(parts, sep) ==
  IF parts = <<>> THEN <<>>
  ELSE IF Len(parts) = 1 THEN parts[1]
  ELSE parts[1] \o sep \o join(Tail(parts), sep)

(***************************************************************************)
(* CSV parser and writer (process-queue, queue-job, process-spreadsheet).  *)
(***************************************************************************)
someNonEmpty(row) == \E k \in 1..Len(row) : Len(row[k]) > 0

\* a parser that takes any two quotes in a row for an escaped quote
doubledQuote(inQuotes, nextChar) == nextChar = "\""

\* inQuotes && nextChar === '"'
escapedQuote(inQuotes, nextChar) == inQuotes /\ nextChar = "\""

RECURSIVE parseScan(_, _, _, _, _, _)
parseScan(text, i, currentRow, currentField, inQuotes, result) ==
  IF i > Len(text)
  THEN IF currentField # <<>> \/ Len(currentRow) > 0
       THEN LET lastRow == Append(currentRow, trim(currentField))
            IN IF someNonEmpty(lastRow) THEN Append(result, lastRow) ELSE result
       ELSE result
  ELSE LET char == text[i]
           nextChar == IF i + 1 <= Len(text) THEN text[i + 1] ELSE NULL
       IN IF char = "\""
          THEN IF escapedQuote(inQuotes, nextChar)
               THEN parseScan(text, i + 2, currentRow, Append(currentField, "\""), inQuotes, result)
               ELSE parseScan(text, i + 1, currentRow, currentField, ~inQuotes, result)
          ELSE IF char = "," /\ ~inQuotes
          THEN parseScan(text, i + 1, Append(currentRow, trim(currentField)), <<>>, inQuotes, result)
          ELSE IF char \in {"\n", "\r"} /\ ~inQuotes
          THEN LET flush == currentField # <<>> \/ Len(currentRow) > 0
                   endedRow == Append(currentRow, trim(currentField))
                   result2 == IF flush /\ someNonEmpty(endedRow)
                              THEN Append(result, endedRow) ELSE result
                   skip == IF char = "\r" /\ nextChar = "\n" THEN 1 ELSE 0
               IN parseScan(text, i + 1 + skip,
                            IF flush THEN <<>> ELSE currentRow,
                            IF flush THEN <<>> ELSE currentField,
                            inQuotes, result2)
          ELSE parseScan(text, i + 1, currentRow, Append(currentField, char), inQuotes, result)

parseCSV(text) ==
  SelectSeq(parseScan(text, 1, <<>>, <<>>, FALSE, <<>>), someNonEmpty)

RECURSIVE doubleQuotes(_)
\* value.replace(/"/g, '""')
doubleQuotes(s) ==
  IF s = <<>> THEN <<>>
  ELSE (IF Head(s) = "\"" THEN <<"\"", "\"">> ELSE <<Head(s)>>) \o doubleQuotes(Tail(s))

\* a writer that wraps a value without doubling its quotes
wrapWithoutDoubling(value) ==
  IF includes(value, <<",">>) \/ includes(value, <<"\"">>) \/ includes(value, <<"\n">>)
     \/ includes(value, <<"\r">>) \/ trim(value) # value
  THEN <<"\"">> \o value \o <<"\"">>
  ELSE value

escapeCsvValue(value) ==
  IF includes(value, <<",">>) \/ includes(value, <<"\"">>) \/ includes(value, <<"\n">>)
     \/ includes(value, <<"\r">>) \/ trim(value) # value
  THEN <<"\"">> \o doubleQuotes(value) \o <<"\"">>
  ELSE value

\* one line of the output CSV
csvLine(fields) == join([k \in 1..Len(fields) |-> escapeCsvValue(fields[k])], <<",">>)

\* btoa on a text and atob + TextDecoder on the encoded data: the transport
\* encoding marks the text as encoded, so that encoded data is never a CSV text
encodeBase64(text) == <<"base64:">> \o text
decodeBase64(data) == Tail(data)

(***************************************************************************)
(* Inputs.                                                                 *)
(***************************************************************************)
Digit == <<"1", "2", "3", "4", "5", "6", "7", "8", "9">>

\* line k of an uploaded CSV: an id and a comment, the comment of odd lines quoted
dataLine(k) ==
  IF k % 2 = 1 THEN <<Digit[k], ",", "\"", "a", ",", "b", "\"">> ELSE <<Digit[k], ",", "a">>

RECURSIVE dataLines(_)
dataLines(n) == IF n = 0 THEN <<>> ELSE dataLines(n - 1) \o <<"\n">> \o dataLine(n)

\* the text of an uploaded CSV with a header and n data rows
fileText(n) == <<"i", "d", ",", "c">> \o dataLines(n)

\* what a client uploads: nothing, only a header, one row, and more than one chunk
FileTexts == {<<>>, fileText(0), fileText(1), fileText(MaxRows)}

FileNames == {<<"f", ".", "c", "s", "v">>, <<"f", ".", "X", "L", "S", "X">>,
              <<"f", ".", "x", "l", "s">>}

\* the file picker accepts .csv and .xlsx; a file named as a workbook is taken
\* with bytes that decode to a header and one row
Uploads ==
  {[fileName |-> <<"f", ".", "c", "s", "v">>, fileText |-> t] : t \in FileTexts}
  \cup {[fileName |-> n, fileText |-> fileText(1)] :
          n \in FileNames \ {<<"f", ".", "c", "s", "v">>}}

\* label lists as the label editor produces them: non-empty, distinct, trimmed labels
LabelLists == { << <<"A", "b">>, <<"b">> >>, << <<"b">> >> }

\* what the completion endpoint answers in choices[0].message.content
Contents == { <<"a", "b", " ">>, <<"B">>, <<"x">> }

\* how one request to the completion endpoint ends
Outcome(kind, content) == [kind |-> kind, content |-> content]
Failures == {Outcome(k, <<>>) : k \in {"network", "timeout", "http", "nocontent"}}
Outcomes == {Outcome("ok", c) : c \in Contents} \cup Failures
\* process-spreadsheet sets no timeout on its requests
DirectOutcomes == {o \in Outcomes : o.kind # "timeout"}

ApiKeys == {<<>>, <<"s", "k">>}

(***************************************************************************)
(* Classification of one row.                                              *)
(***************************************************************************)
\* the value of labels[0] when the label list is empty
undefined == <<"undefined">>

\* labels[0]
firstLabel(labels) == IF Len(labels) > 0 THEN labels[1] ELSE undefined

\* a dispatcher that trusts the model's answer
unvalidatedLabel(labels, classification) == classification

\* a matcher that compares without lower-casing
caseSensitiveLabel(labels, classification) ==
  LET hits == {k \in 1..Len(labels) : includes(classification, labels[k])}
  IN IF hits = {} THEN firstLabel(labels)
     ELSE labels[CHOOSE k \in hits : \A m \in hits : k <= m]

\* labels.find(l => classification.toLowerCase().includes(l.toLowerCase())) || labels[0]
selectedLabel(labels, classification) ==
  LET hits == {k \in 1..Len(labels) :
                 includes(toLowerCase(classification), toLowerCase(labels[k]))}
  IN IF hits = {} THEN firstLabel(labels)
     ELSE LET found == labels[CHOOSE k \in hits : \A m \in hits : k <= m]
          IN IF found = <<>> THEN firstLabel(labels) ELSE found

ClassificationResult(row, originalRow, label) ==
  [row |-> row, originalRow |-> originalRow, label |-> label]

\* a catch block that falls back to the last label instead of the first
fallbackLastLabel(absoluteRowIndex, row, labels) ==
  ClassificationResult(absoluteRowIndex, row, labels[Len(labels)])

\* the catch block of the per-row handler
fallbackResult(absoluteRowIndex, row, labels) ==
  ClassificationResult(absoluteRowIndex, row, firstLabel(labels))

\* the per-row handler: one result whatever the request's outcome
classifyRow(absoluteRowIndex, row, labels, outcome) ==
  IF outcome.kind = "ok"
  THEN ClassificationResult(absoluteRowIndex, row, selectedLabel(labels, trim(outcome.content)))
  ELSE fallbackResult(absoluteRowIndex, row, labels)

\* startRow + i + batchIndex + 2
absoluteRowIndex(startRow, i, batchIndex) == startRow + i + batchIndex + 2

\* rows.slice(from, to) with 0-based, end-exclusive indices
slice(seq, from, to) == SubSeq(seq, from + 1, Min(to, Len(seq)))

RECURSIVE insertByRow(_, _)
insertByRow(sorted, r) ==
  IF sorted = <<>> THEN <<r>>
  ELSE IF sorted[Len(sorted)].row <= r.row THEN Append(sorted, r)
  ELSE Append(insertByRow(SubSeq(sorted, 1, Len(sorted) - 1), r), sorted[Len(sorted)])

RECURSIVE sortByRowDescending(_)
\* a comparator with its operands exchanged: (a, b) => b.row - a.row
sortByRowDescending(results) ==
  IF results = <<>> THEN <<>>
  ELSE LET rest == sortByRowDescending(SubSeq(results, 1, Len(results) - 1))
           r == results[Len(results)]
           before == SelectSeq(rest, LAMBDA x : x.row >= r.row)
           after == SelectSeq(rest, LAMBDA x : x.row < r.row)
       IN before \o <<r>> \o after

RECURSIVE sortByRow(_)
\* allResults.sort((a, b) => a.row - b.row)
sortByRow(results) ==
  IF results = <<>> THEN <<>>
  ELSE insertByRow(sortByRow(SubSeq(results, 1, Len(results) - 1)), results[Len(results)])

\* a writer that puts the label before the row's fields
outputCsvLabelFirst(headerRow, results) ==
  csvLine(<< <<"L", "a", "b", "e", "l">> >> \o headerRow) \o <<"\n">>
  \o join([k \in 1..Len(results) |->
             csvLine(<<results[k].label>> \o results[k].originalRow)], <<"\n">>)

\* the output CSV: header plus 'Label', then one line per result
outputCsv(headerRow, results) ==
  csvLine(Append(headerRow, <<"L", "a", "b", "e", "l">>)) \o <<"\n">>
  \o join([k \in 1..Len(results) |->
             csvLine(Append(results[k].originalRow, results[k].label))], <<"\n">>)

(***************************************************************************)
(* State.                                                                  *)
(***************************************************************************)
VARIABLES
  submitted,        \* the client has sent its one submission (Index.tsx handleRun)
  processing_jobs,  \* the processing_jobs table: <<>> or the one job record
  queueResponse,    \* the response of queue-job
  invocations,      \* number of process-queue invocations so far
  storeErrors,      \* number of job-store calls that have failed so far
  pc,               \* position of the running processJob
  job,              \* processJob: the record read at its start
  errorMessage,     \* processJob: message of the error that reached the outer catch
  rows,             \* processJob: the parsed file
  allResults,       \* processJob: results of the chunks so far
  startRow,         \* processJob: start of the current chunk (0-based data row)
  chunkRows,        \* processJobChunk: rows of the chunk
  results,          \* processJobChunk: results of the batches so far
  i,                \* processJobChunk: start of the current batch within the chunk
  pending,          \* batch indices whose request is in flight
  batchResults,     \* batch index -> result of its promise
  elapsed,          \* clock ticks since the invocation started
  dispatched,       \* history: data rows sent to the endpoint in this invocation
  skipped,          \* history: chunks (by startRow) whose processing threw
  batchFailed,      \* history: batch indices of the latest batch whose request failed
  firstChunk,       \* history: startRow of the first chunk this invocation entered
  dpc,              \* process-spreadsheet: position of the handler
  dRows,            \* process-spreadsheet: the parsed file
  dLabels,          \* process-spreadsheet: the request's labels
  dI,               \* process-spreadsheet: start of the current batch
  dPending,         \* process-spreadsheet: batch indices in flight
  dBatchResults,    \* process-spreadsheet: batch index -> result
  dBatchFailed,     \* history: batch indices of the current batch whose request failed
  dResults,         \* process-spreadsheet: results so far
  dResponse,        \* process-spreadsheet: the HTTP response
  request,          \* history: the submission as the client sent it, and the number
                    \* of rows its file parses to
  statusResponse,   \* job-status: the response of the latest call
  csvRows,          \* CSV writer and parser: the rows given to the writer
  csvEscaped,       \* CSV writer: what escapeCsvValue returned for each field
  csvText,          \* CSV writer: the text written
  csvParsed,        \* CSV parser: the rows parsed from the text
  csvPc,            \* CSV writer and parser: position
  extractPc,        \* extract-quotes: position of the handler
  fileCount,        \* extract-quotes: files.length of the request
  fileIndex,        \* extract-quotes: number of files the file loop has left behind
  fileContent,      \* extract-quotes: the decoded text of the current file
  chunks,           \* extract-quotes: the chunks of the current file
  chunkNo,          \* extract-quotes: i of the chunk loop
  allQuotes,        \* extract-quotes: the quotes collected so far
  extractResponse,  \* extract-quotes: the HTTP response
  lastOutcome,      \* history: how the latest request of extract-quotes ended
  quoteOrigins,     \* history: for each quote, the length of the chunk it came from
  sent,             \* history: lengths of the chunks sent to the endpoint
  unanswered,       \* requests in flight that the endpoint will never answer, as
                    \* <<path, batch index>>
  labelList,        \* label matcher: labels
  responseText,     \* label matcher: choices[0].message.content
  chosen,           \* label matcher: the result of the per-row handler
  labelPc,          \* label matcher: position
  scanText,         \* parseCSV: text
  scanI,            \* parseCSV: i
  scanRow,          \* parseCSV: currentRow
  scanField,        \* parseCSV: currentField
  scanInQuotes,     \* parseCSV: inQuotes
  scanResult,       \* parseCSV: result
  scanPc            \* parseCSV: position

jobVars == <<processing_jobs, queueResponse, invocations, storeErrors>>
localVars == <<pc, job, errorMessage, rows, allResults, startRow, chunkRows, results, i,
               pending, batchResults, elapsed>>
historyVars == <<dispatched, skipped, batchFailed, firstChunk>>
directVars == <<dpc, dRows, dLabels, dI, dPending, dBatchResults, dBatchFailed, dResults,
                dResponse>>
statusVars == <<statusResponse>>
csvVars == <<csvRows, csvEscaped, csvText, csvParsed, csvPc>>
labelVars == <<labelList, responseText, chosen, labelPc>>
scanVars == <<scanText, scanI, scanRow, scanField, scanInQuotes, scanResult, scanPc>>
extractVars == <<extractPc, fileCount, fileIndex, fileContent, chunks, chunkNo, allQuotes,
                 extractResponse, lastOutcome, quoteOrigins, sent>>
vars == <<submitted, request, jobVars, localVars, historyVars, directVars, statusVars,
          csvVars, labelVars, scanVars, extractVars, unanswered>>

NoJob == [file_name |-> <<>>, file_data |-> <<>>, total_rows |-> 0, processed_rows |-> 0,
          status |-> "none", labels |-> <<>>, result_data |-> <<>>,
          error_message |-> NULL, started_at |-> 0, completed_at |-> 0]

NoResponse == [status |-> 0, success |-> FALSE, error |-> NULL, body |-> <<>>]

NoRequest == [path |-> "none", apiKey |-> <<>>, fileName |-> <<>>, fileText |-> <<>>,
              rowCount |-> 0]

NoExtractResponse == [status |-> 0, success |-> FALSE, extractedQuotes |-> 0,
                      downloadData |-> <<>>]

NoOutcome == [kind |-> "none"]

NoStatus == [success |-> FALSE, status |-> "none", totalRows |-> 0, processedRows |-> 0,
             progress |-> 0, errorMessage |-> NULL, downloadReady |-> FALSE,
             resultData |-> <<>>]

Init ==
  /\ submitted = FALSE
  /\ processing_jobs = <<>>
  /\ queueResponse = NoResponse
  /\ invocations = 0
  /\ storeErrors = 0
  /\ pc = "idle"
  /\ job = NoJob
  /\ errorMessage = NULL
  /\ rows = <<>>
  /\ allResults = <<>>
  /\ startRow = 0
  /\ chunkRows = <<>>
  /\ results = <<>>
  /\ i = 0
  /\ pending = {}
  /\ batchResults = <<>>
  /\ elapsed = 0
  /\ dispatched = {}
  /\ skipped = {}
  /\ batchFailed = {}
  /\ firstChunk = -1
  /\ dpc = "idle"
  /\ dRows = <<>>
  /\ dLabels = <<>>
  /\ dI = 0
  /\ dPending = {}
  /\ dBatchResults = <<>>
  /\ dBatchFailed = {}
  /\ dResults = <<>>
  /\ dResponse = NoResponse
  /\ request = NoRequest
  /\ statusResponse = NoStatus
  /\ csvRows = <<>>
  /\ csvEscaped = <<>>
  /\ csvText = <<>>
  /\ csvParsed = <<>>
  /\ csvPc = "rows"
  /\ extractPc = "idle"
  /\ fileCount = 0
  /\ fileIndex = 0
  /\ fileContent = <<>>
  /\ chunks = <<>>
  /\ chunkNo = 0
  /\ allQuotes = <<>>
  /\ extractResponse = NoExtractResponse
  /\ lastOutcome = NoOutcome
  /\ quoteOrigins = <<>>
  /\ sent = {}
  /\ unanswered = {}
  /\ labelList = <<>>
  /\ responseText = <<>>
  /\ chosen = <<>>
  /\ labelPc = "labels"
  /\ scanText = <<>>
  /\ scanI = 0
  /\ scanRow = <<>>
  /\ scanField = <<>>
  /\ scanInQuotes = FALSE
  /\ scanResult = <<>>
  /\ scanPc = "text"

(***************************************************************************)
(* The job store.                                                          *)
(***************************************************************************)
\* INSERT with the column defaults of the migration
newJob(fileName, fileData, totalRows, labels) ==
  [file_name |-> fileName, file_data |-> fileData, total_rows |-> totalRows,
   processed_rows |-> 0, status |-> "pending", labels |-> labels, result_data |-> <<>>,
   error_message |-> NULL, started_at |-> 0, completed_at |-> 0]

\* supabase.from('processing_jobs').update(patch).eq('id', jobId): the call resolves
\* with {error} instead of throwing, and no caller looks at it, so a write that
\* does not reach the table is lost silently
update(table, patch, ok) ==
  IF ok /\ Len(table) > 0
  THEN <<[f \in DOMAIN table[1] |-> IF f \in DOMAIN patch THEN patch[f] ELSE table[1][f]]>>
  ELSE table

\* one update of the job's record, which the store may fail to apply
write(patch) ==
  \E lost \in BOOLEAN :
    /\ lost => storeErrors < MaxStoreErrors
    /\ processing_jobs' = update(processing_jobs, patch, ~lost)
    /\ storeErrors' = IF lost THEN storeErrors + 1 ELSE storeErrors

(***************************************************************************)
(* queue-job.                                                              *)
(***************************************************************************)
\* the locals of a processJob that starts
startProcessJob ==
  /\ pc' = "select"
  /\ invocations' = invocations + 1
  /\ job' = NoJob
  /\ errorMessage' = NULL
  /\ rows' = <<>>
  /\ allResults' = <<>>
  /\ startRow' = 0
  /\ chunkRows' = <<>>
  /\ results' = <<>>
  /\ i' = 0
  /\ pending' = {}
  /\ batchResults' = <<>>
  /\ elapsed' = 0
  /\ dispatched' = {}
  /\ skipped' = {}
  /\ batchFailed' = {}
  /\ firstChunk' = -1

\* a check that lets a file with only a header through
headerIsEnough(parsed) == Len(parsed) < 1

\* if (rows.length < 2) throw new Error('File must contain at least a header row ...')
tooFewRows(parsed) == Len(parsed) < 2

errorResponse(status, message) ==
  [status |-> status, success |-> FALSE, error |-> message, body |-> <<>>]

QueueJob ==
  \E upload \in Uploads, labels \in LabelLists, apiKey \in ApiKeys, inserted \in BOOLEAN,
     triggered \in BOOLEAN :
    LET fileData == encodeBase64(upload.fileText)
        fileName == upload.fileName
    IN
    /\ ~submitted
    /\ ~inserted => storeErrors < MaxStoreErrors
    /\ submitted' = TRUE
    /\ request' = [path |-> "queue", apiKey |-> apiKey, fileName |-> fileName,
                   fileText |-> upload.fileText,
                   rowCount |-> Len(parseCSV(upload.fileText))]
    /\ UNCHANGED <<directVars, statusVars, csvVars, labelVars, scanVars, extractVars, unanswered>>
    /\ IF apiKey = <<>>
       THEN /\ queueResponse' = errorResponse(500, "OpenAI API key is required")
            /\ UNCHANGED <<processing_jobs, invocations, storeErrors, localVars, historyVars>>
       ELSE LET parsed == parseCSV(decodeBase64(fileData))
            IN IF tooFewRows(parsed)
               THEN /\ queueResponse' =
                         errorResponse(500, "File must contain at least a header row and one data row")
                    /\ UNCHANGED <<processing_jobs, invocations, storeErrors, localVars, historyVars>>
               ELSE IF ~inserted
               THEN /\ queueResponse' = errorResponse(500, "Failed to create job")
                    /\ storeErrors' = storeErrors + 1
                    /\ UNCHANGED <<processing_jobs, invocations, localVars, historyVars>>
               ELSE /\ processing_jobs' = <<newJob(fileName, fileData, Len(parsed) - 1, labels)>>
                    /\ queueResponse' = [status |-> 200, success |-> TRUE, error |-> NULL,
                                         body |-> <<>>]
                    /\ UNCHANGED storeErrors
                    /\ IF triggered
                       THEN startProcessJob
                       ELSE UNCHANGED <<invocations, localVars, historyVars>>

(***************************************************************************)
(* process-queue.                                                          *)
(***************************************************************************)
\* the serve handler, called once more for the job: it starts processJob whatever
\* the job's status is
ProcessQueue ==
  /\ Len(processing_jobs) > 0
  /\ pc \in {"idle", "done"}
  /\ invocations < MaxInvocations
  /\ startProcessJob
  /\ UNCHANGED <<request, statusVars, csvVars, labelVars, scanVars, extractVars, unanswered, submitted, processing_jobs, queueResponse, storeErrors, directVars>>

\* processJob: read the job
SelectJob ==
  /\ pc = "select"
  /\ \E jobError \in BOOLEAN :
       /\ jobError => storeErrors < MaxStoreErrors
       /\ IF ~jobError
          THEN /\ job' = processing_jobs[1]
               /\ pc' = "mark"
               /\ UNCHANGED <<errorMessage, storeErrors>>
          ELSE /\ errorMessage' = "Job not found"
               /\ storeErrors' = storeErrors + 1
               /\ pc' = "failing"
               /\ UNCHANGED job
  /\ UNCHANGED <<request, statusVars, csvVars, labelVars, scanVars, extractVars, unanswered, submitted, processing_jobs, queueResponse, invocations, rows, allResults, startRow, chunkRows, results, i,
                 pending, batchResults, elapsed, historyVars, directVars>>

\* a loop that resumes from the stored progress
resumeStartRow(j) == j.processed_rows

\* let startRow = 0
initialStartRow(j) == 0

\* processJob: status -> processing, then parse the file for its header
MarkProcessing ==
  /\ pc = "mark"
  /\ write([status |-> "processing", started_at |-> now])
  /\ rows' = parseCSV(decodeBase64(job.file_data))
  /\ allResults' = <<>>
  /\ startRow' = initialStartRow(job)
  /\ pc' = "chunks"
  /\ UNCHANGED <<request, statusVars, csvVars, labelVars, scanVars, extractVars, unanswered, submitted, queueResponse, invocations, job, errorMessage, chunkRows,
                 results, i, pending, batchResults, elapsed, historyVars, directVars>>

\* for (let startRow = 0; startRow < job.total_rows; startRow += chunkSize)
moreChunks(start, j) == start < j.total_rows

\* processJob: enter the next chunk (the head of processJobChunk), or leave the loop
ChunkLoop ==
  /\ pc = "chunks"
  /\ IF moreChunks(startRow, job)
     THEN LET dataRows == Tail(parseCSV(decodeBase64(job.file_data)))
              endRow == Min(startRow + chunkSize, Len(dataRows))
          IN /\ chunkRows' = slice(dataRows, startRow, endRow)
             /\ results' = <<>>
             /\ i' = 0
             /\ firstChunk' = IF firstChunk = -1 THEN startRow ELSE firstChunk
             /\ pc' = "batches"
     ELSE /\ pc' = "assemble"
          /\ UNCHANGED <<chunkRows, results, i, firstChunk>>
  /\ UNCHANGED <<request, statusVars, csvVars, labelVars, scanVars, extractVars, unanswered, submitted, jobVars, job, errorMessage, rows, allResults, startRow, pending,
                 batchResults, elapsed, dispatched, skipped, batchFailed, directVars>>

\* a loop head that also checks the time since the invocation started
moreBatchesWithinBudget(idx, chunk, ticks) == idx < Len(chunk) /\ ticks <= Budget

\* for (let i = 0; i < chunkRows.length; i += batchSize): the only test made before
\* a batch starts; the time since the invocation started takes no part in it
moreBatches(idx, chunk, ticks) == idx < Len(chunk)

\* processJobChunk has returned or thrown: its locals are gone
chunkLocalsGone ==
  /\ chunkRows' = <<>>
  /\ results' = <<>>
  /\ i' = 0
  /\ pending' = {}
  /\ batchResults' = <<>>

\* a batch that takes all the rows the chunk has left
restOf(chunk, idx) == slice(chunk, idx, Len(chunk))

\* chunkRows.slice(i, i + batchSize)
batchOf(chunk, idx) == slice(chunk, idx, idx + batchSize)

\* processJobChunk: start the requests of the next batch, or return the results
BatchLoop ==
  /\ pc = "batches"
  /\ IF moreBatches(i, chunkRows, elapsed)
     THEN LET batch == batchOf(chunkRows, i)
          IN /\ pending' = 0..(Len(batch) - 1)
             /\ batchResults' = <<>>
             /\ batchFailed' = {}
             /\ dispatched' = dispatched \cup {startRow + i + b : b \in 0..(Len(batch) - 1)}
             /\ pc' = "await"
             /\ UNCHANGED <<allResults, chunkRows, results, i>>
     ELSE /\ allResults' = allResults \o results
          /\ chunkLocalsGone
          /\ pc' = "progress"
          /\ UNCHANGED <<dispatched, batchFailed>>
  /\ UNCHANGED <<request, statusVars, csvVars, labelVars, scanVars, extractVars, unanswered, submitted, jobVars, job, errorMessage, rows, startRow, elapsed, skipped,
                 firstChunk, directVars>>

\* a per-row handler that rethrows, so that the error reaches the outer catch
rethrowRowError == "failing"

\* catch (error) { return { row, originalRow, label: job.labels[0] } }: the promise
\* of a row whose request failed still resolves, and the batch is awaited on
afterRowError == "await"

\* const timeoutId = setTimeout(() => controller.abort(), 30000): a request the
\* endpoint never answers is aborted, and any other ends in any of the ways
settlements(batchIndex) ==
  IF <<"queue", batchIndex>> \in unanswered THEN {Outcome("timeout", <<>>)} ELSE Outcomes

\* one request of the batch settles, in any order
Respond ==
  /\ pc = "await"
  /\ \E batchIndex \in pending : \E outcome \in settlements(batchIndex) :
       /\ pending' = pending \ {batchIndex}
       /\ unanswered' = unanswered \ {<<"queue", batchIndex>>}
       /\ batchResults' =
            [b \in (DOMAIN batchResults) \cup {batchIndex} |->
               IF b = batchIndex
               THEN classifyRow(absoluteRowIndex(startRow, i, batchIndex),
                                chunkRows[i + batchIndex + 1], job.labels, outcome)
               ELSE batchResults[b]]
       /\ batchFailed' = IF outcome \in Failures THEN batchFailed \cup {batchIndex}
                         ELSE batchFailed
       /\ pc' = IF outcome \in Failures THEN afterRowError ELSE pc
       /\ errorMessage' = IF outcome \in Failures /\ afterRowError = "failing"
                          THEN "row error" ELSE errorMessage
  /\ UNCHANGED <<request, statusVars, csvVars, labelVars, scanVars, extractVars, submitted, jobVars, job, rows, allResults, startRow,
                 chunkRows, results, i, elapsed, dispatched, skipped, firstChunk, directVars>>

\* Promise.all: the results of the batch in the order of the batch
promiseAll(settled, n) == [k \in 1..n |-> settled[k - 1]]

\* processJobChunk: await Promise.all(batchPromises), push, and the delay between batches
BatchDone ==
  /\ pc = "await"
  /\ pending = {}
  /\ results' = results \o promiseAll(batchResults, Cardinality(DOMAIN batchResults))
  /\ i' = i + batchSize
  /\ elapsed' = Min(elapsed + 1, MaxElapsed)
  /\ pc' = "batches"
  /\ UNCHANGED <<request, statusVars, csvVars, labelVars, scanVars, extractVars, unanswered, submitted, jobVars, job, errorMessage, rows, allResults, startRow,
                 chunkRows, pending, batchResults, historyVars, directVars>>

\* a progress count that is not capped by the job's number of rows
progressCountUncapped(start, j) == start + chunkSize

\* Math.min(startRow + chunkSize, job.total_rows)
progressCount(start, j) == Min(start + chunkSize, j.total_rows)

\* processJob: write the progress of the chunk and go to the next chunk
UpdateProgress ==
  /\ pc = "progress"
  /\ write([processed_rows |-> progressCount(startRow, job)])
  /\ startRow' = startRow + chunkSize
  /\ pc' = "chunks"
  /\ UNCHANGED <<request, statusVars, csvVars, labelVars, scanVars, extractVars, unanswered, submitted, queueResponse, invocations, job, errorMessage, rows, allResults,
                 chunkRows, results, i, pending, batchResults, elapsed, historyVars,
                 directVars>>

\* a chunk error that reaches the outer catch
rethrowChunkError == "failing"

\* catch (chunkError) { /* Continue with next chunk */ }: where processJob goes on
afterChunkError == "chunks"

\* processJob: processJobChunk throws past the per-row handler; the chunk's results
\* are lost with it and the loop goes to the next chunk
ChunkError ==
  /\ pc \in {"batches", "await"}
  /\ skipped' = skipped \cup {startRow}
  /\ chunkLocalsGone
  /\ batchFailed' = {}
  /\ unanswered' = {}
  /\ startRow' = startRow + chunkSize
  /\ errorMessage' = IF afterChunkError = "failing" THEN "chunk error" ELSE errorMessage
  /\ pc' = afterChunkError
  /\ UNCHANGED <<request, statusVars, csvVars, labelVars, scanVars, extractVars, submitted, jobVars, job, rows, allResults, elapsed, dispatched,
                 firstChunk, directVars>>

\* processJob has returned: its locals are gone
jobLocalsGone ==
  /\ job' = NoJob
  /\ errorMessage' = NULL
  /\ rows' = <<>>
  /\ allResults' = <<>>
  /\ startRow' = 0
  /\ elapsed' = 0

\* processJob: assemble the CSV and write the job as completed
CompleteJob ==
  /\ pc = "assemble"
  /\ write([status |-> "completed", processed_rows |-> Len(allResults),
           result_data |-> encodeBase64(outputCsv(rows[1], sortByRow(allResults))),
           completed_at |-> now])
  /\ pc' = "done"
  /\ jobLocalsGone
  /\ UNCHANGED <<request, statusVars, csvVars, labelVars, scanVars, extractVars, unanswered, submitted, queueResponse, invocations, chunkRows, results, i, pending,
                 batchResults, historyVars, directVars>>

\* processJob: the outer catch writes the job as failed
FailJob ==
  /\ pc = "failing"
  /\ write([status |-> "failed", error_message |-> errorMessage])
  /\ pc' = "done"
  /\ jobLocalsGone
  /\ UNCHANGED <<request, statusVars, csvVars, labelVars, scanVars, extractVars, unanswered, submitted, queueResponse, invocations, chunkRows, results, i, pending,
                 batchResults, historyVars, directVars>>

(***************************************************************************)
(* process-spreadsheet.                                                    *)
(***************************************************************************)
\* fileName.toLowerCase().endsWith('.xlsx') || fileName.toLowerCase().endsWith('.xls')
isExcel(fileName) ==
  \/ endsWith(toLowerCase(fileName), <<".", "x", "l", "s", "x">>)
  \/ endsWith(toLowerCase(fileName), <<".", "x", "l", "s">>)

\* the handler up to its batch loop
ProcessSpreadsheet ==
  \E upload \in Uploads, labels \in LabelLists, apiKey \in ApiKeys :
    LET fileData == encodeBase64(upload.fileText)
        fileName == upload.fileName
    IN
    /\ ~submitted
    /\ submitted' = TRUE
    /\ request' = [path |-> "direct", apiKey |-> apiKey, fileName |-> fileName,
                   fileText |-> upload.fileText,
                   rowCount |-> Len(parseCSV(upload.fileText))]
    /\ UNCHANGED <<jobVars, localVars, historyVars, statusVars, csvVars, labelVars, scanVars, extractVars, unanswered, dI, dPending,
                   dBatchResults, dBatchFailed, dResults>>
    /\ IF apiKey = <<>>
       THEN /\ dResponse' = errorResponse(500, "OpenAI API key is required")
            /\ dpc' = "done"
            /\ UNCHANGED <<dRows, dLabels>>
       ELSE IF isExcel(fileName)
       THEN /\ dResponse' = errorResponse(400, "Excel files are not fully supported yet")
            /\ dpc' = "done"
            /\ UNCHANGED <<dRows, dLabels>>
       ELSE LET parsed == parseCSV(decodeBase64(fileData))
            IN IF tooFewRows(parsed)
               THEN /\ dResponse' =
                         errorResponse(500, "File must contain at least a header row and one data row")
                    /\ dpc' = "done"
                    /\ UNCHANGED <<dRows, dLabels>>
               ELSE /\ dRows' = parsed
                    /\ dLabels' = labels
                    /\ dpc' = "batches"
                    /\ UNCHANGED dResponse

\* the batch loop: start the requests of the next batch, or answer with the CSV
DirectBatchLoop ==
  /\ dpc = "batches"
  /\ LET dataRows == Tail(dRows)
     IN IF dI < Len(dataRows)
        THEN /\ dPending' = 0..(Len(slice(dataRows, dI, dI + directBatchSize)) - 1)
             /\ dBatchResults' = <<>>
             /\ dBatchFailed' = {}
             /\ dpc' = "await"
             /\ UNCHANGED dResponse
        ELSE /\ dResponse' = [status |-> 200, success |-> TRUE, error |-> NULL,
                              body |-> encodeBase64(outputCsv(dRows[1], dResults))]
             /\ dpc' = "done"
             /\ UNCHANGED <<dPending, dBatchResults, dBatchFailed>>
  /\ UNCHANGED <<request, statusVars, csvVars, labelVars, scanVars, extractVars, unanswered, submitted, jobVars, localVars, historyVars, dRows, dLabels, dI, dResults>>

\* await fetch(...) without a signal: only a request the endpoint answers, or
\* whose connection fails, ever settles
answered(inFlight) == {b \in inFlight : <<"direct", b>> \notin unanswered}

\* one request of the batch settles, in any order
DirectRespond ==
  /\ dpc = "await"
  /\ \E batchIndex \in answered(dPending), outcome \in DirectOutcomes :
       /\ dPending' = dPending \ {batchIndex}
       /\ dBatchResults' =
            [b \in (DOMAIN dBatchResults) \cup {batchIndex} |->
               IF b = batchIndex
               THEN classifyRow(absoluteRowIndex(0, dI, batchIndex),
                                Tail(dRows)[dI + batchIndex + 1], dLabels, outcome)
               ELSE dBatchResults[b]]
       /\ dBatchFailed' = IF outcome \in Failures THEN dBatchFailed \cup {batchIndex}
                          ELSE dBatchFailed
  /\ UNCHANGED <<request, statusVars, csvVars, labelVars, scanVars, extractVars, unanswered, submitted, jobVars, localVars, historyVars, dpc, dRows, dLabels, dI,
                 dResults, dResponse>>

\* await Promise.all(batchPromises), push, and the delay between batches
DirectBatchDone ==
  /\ dpc = "await"
  /\ dPending = {}
  /\ dResults' = dResults \o promiseAll(dBatchResults, Cardinality(DOMAIN dBatchResults))
  /\ dI' = dI + directBatchSize
  /\ dpc' = "batches"
  /\ UNCHANGED <<request, statusVars, csvVars, labelVars, scanVars, extractVars, unanswered, submitted, jobVars, localVars, historyVars, dRows, dLabels, dPending,
                 dBatchResults, dBatchFailed, dResponse>>

(***************************************************************************)
(* Specification.                                                          *)
(***************************************************************************)
Next ==
  \/ QueueJob
  \/ ProcessQueue
  \/ SelectJob
  \/ MarkProcessing
  \/ ChunkLoop
  \/ BatchLoop
  \/ Respond
  \/ BatchDone
  \/ UpdateProgress
  \/ ChunkError
  \/ CompleteJob
  \/ FailJob
  \/ ProcessSpreadsheet
  \/ DirectBatchLoop
  \/ DirectRespond
  \/ DirectBatchDone

Spec == Init /\ [][Next]_vars

\* the endpoint accepts a request that is in flight and never answers it
NeverAnswered ==
  /\ \E b \in pending \cup dPending :
       /\ \/ /\ pc = "await"
             /\ b \in pending
             /\ unanswered' = unanswered \cup {<<"queue", b>>}
          \/ /\ dpc = "await"
             /\ b \in dPending
             /\ unanswered' = unanswered \cup {<<"direct", b>>}
       /\ unanswered' # unanswered
  /\ UNCHANGED <<submitted, request, jobVars, localVars, historyVars, directVars, statusVars,
                 csvVars, labelVars, scanVars, extractVars>>

SilentNext ==
  \/ Next
  \/ NeverAnswered

SilentSpec == Init /\ [][SilentNext]_vars

\* the steps of a running processJob
processJobStep ==
  \/ SelectJob
  \/ MarkProcessing
  \/ ChunkLoop
  \/ BatchLoop
  \/ Respond
  \/ BatchDone
  \/ UpdateProgress
  \/ CompleteJob
  \/ FailJob

PcValues == {"idle", "select", "mark", "chunks", "batches", "await", "progress", "assemble",
             "failing", "done"}

\* processJobStep seen from outside: while processJob runs, a step that is not a
\* chunk exception. Each step of processJobStep changes pc or pending, and one of
\* them is enabled at every position of a running processJob
processJobGoesOn ==
  /\ pc \notin {"idle", "done"}
  /\ skipped' = skipped
  /\ pc' \in PcValues
  /\ pending' \in SUBSET (0..(batchSize - 1))

\* a processJob that EdgeRuntime.waitUntil keeps alive goes on to its end, and
\* every request settles: it answers, errors, or is aborted after 30 s. Nothing
\* makes a chunk throw, makes the store fail, or invokes process-queue again
Fairness == WF_<<pc, pending>>(processJobGoesOn)

FairSpec == Spec /\ Fairness

\* the handler of process-spreadsheet goes on whenever it can: the runtime runs
\* its continuation as soon as what it awaits has settled
DirectFairness ==
  /\ WF_vars(DirectBatchLoop)
  /\ WF_vars(DirectRespond)
  /\ WF_vars(DirectBatchDone)

SilentFairSpec == SilentSpec /\ Fairness /\ DirectFairness

(***************************************************************************)
(* job-status: the pipeline with a client that asks for the job's status.   *)
(***************************************************************************)
\* Math.round((job.processed_rows / job.total_rows) * 100), or 0 without rows
progress(j) ==
  IF j.total_rows > 0
  THEN (200 * j.processed_rows + j.total_rows) \div (2 * j.total_rows)
  ELSE 0

\* job.status === 'completed' && job.result_data, as the truth value it stands for
downloadReady(j) == j.status = "completed" /\ j.result_data # <<>>

\* a handler that hands out whatever result the record holds
resultDataWhateverStatus(j) == j.result_data

\* job.status === 'completed' ? job.result_data : null
resultData(j) == IF j.status = "completed" THEN j.result_data ELSE <<>>

\* the serve handler of job-status: read the job and answer with its state, or
\* answer with the error when the job cannot be read
JobStatus ==
  /\ \E error \in BOOLEAN :
       /\ error => storeErrors < MaxStoreErrors
       /\ ~error => Len(processing_jobs) > 0
       /\ IF error
          THEN /\ statusResponse' = [NoStatus EXCEPT !.status = "error",
                                                    !.errorMessage = "Job not found"]
               /\ storeErrors' = storeErrors + 1
          ELSE /\ statusResponse' =
                    [success |-> TRUE,
                     status |-> processing_jobs[1].status,
                     totalRows |-> processing_jobs[1].total_rows,
                     processedRows |-> processing_jobs[1].processed_rows,
                     progress |-> progress(processing_jobs[1]),
                     errorMessage |-> processing_jobs[1].error_message,
                     downloadReady |-> downloadReady(processing_jobs[1]),
                     resultData |-> resultData(processing_jobs[1])]
               /\ UNCHANGED storeErrors
  /\ UNCHANGED <<submitted, request, processing_jobs, queueResponse, invocations,
                 localVars, historyVars, directVars, csvVars, labelVars, scanVars, extractVars, unanswered>>

StatusNext ==
  \/ Next
  \/ JobStatus

StatusSpec == Init /\ [][StatusNext]_vars

(***************************************************************************)
(* The CSV writers and the CSV parser on their own: rows are put together   *)
(* field by field, written as a CSV text, and the text is parsed back.      *)
(***************************************************************************)
\* the fields a row is put together from: empty, plain, with a comma, a quote, a
\* line feed, a carriage return, an inner blank, and with a leading blank or a
\* trailing line feed
CsvFields ==
  { <<>>, <<"a">>, <<",">>, <<"\"">>, <<"a", "\n", "b">>, <<"b", "\r", "\"">>,
    <<"\"", "a", "\"", ",">>, <<"a", " ", "b">>, <<" ", "a">>, <<"a", "\n">> }

RECURSIVE cells(_)
\* number of fields of a sequence of rows
cells(rs) == IF rs = <<>> THEN 0 ELSE Len(Head(rs)) + cells(Tail(rs))

pipelineVars ==
  <<submitted, request, jobVars, localVars, historyVars, directVars, statusVars, extractVars,
    unanswered, labelVars, scanVars>>

\* a new row is begun with its first field
AddRow ==
  /\ csvPc = "rows"
  /\ cells(csvRows) < MaxCells
  /\ \E field \in CsvFields : csvRows' = Append(csvRows, <<field>>)
  /\ UNCHANGED <<pipelineVars, csvEscaped, csvText, csvParsed, csvPc>>

\* the last row gets one more field
AddField ==
  /\ csvPc = "rows"
  /\ csvRows # <<>>
  /\ cells(csvRows) < MaxCells
  /\ \E field \in CsvFields :
       csvRows' = [csvRows EXCEPT ![Len(csvRows)] = Append(@, field)]
  /\ UNCHANGED <<pipelineVars, csvEscaped, csvText, csvParsed, csvPc>>

\* rows.map(row => row.map(escapeCsvValue).join(',')).join('\n'), the writer of
\* process-queue and process-spreadsheet
WriteCsv ==
  /\ csvPc = "rows"
  /\ csvEscaped' = [r \in 1..Len(csvRows) |->
                      [k \in 1..Len(csvRows[r]) |-> escapeCsvValue(csvRows[r][k])]]
  /\ csvText' = join([r \in 1..Len(csvRows) |-> csvLine(csvRows[r])], <<"\n">>)
  /\ csvPc' = "written"
  /\ UNCHANGED <<pipelineVars, csvRows, csvParsed>>

\* extract-quotes: its own escapeCsvValue
quotesEscapeCsvValue(value) ==
  IF includes(value, <<",">>) \/ includes(value, <<"\"">>) \/ includes(value, <<"\n">>)
     \/ includes(value, <<"\r">>)
  THEN <<"\"">> \o doubleQuotes(value) \o <<"\"">>
  ELSE value

\* extract-quotes: 'Filename,Quote,Context\n'
csvHeader ==
  <<"F", "i", "l", "e", "n", "a", "m", "e", ",", "Q", "u", "o", "t", "e", ",",
    "C", "o", "n", "t", "e", "x", "t", "\n">>

\* extract-quotes: a row of allQuotes is {source: file.name, quote: q.quote.trim(),
\* context: (q.context || '').trim()}, of a quote with q.quote.trim().length > 10
isQuote(row) ==
  /\ Len(row) = 3
  /\ trim(row[2]) = row[2]
  /\ Len(row[2]) > minQuoteLength
  /\ trim(row[3]) = row[3]

\* extract-quotes: the writer of the quotes CSV
WriteQuotesCsv ==
  /\ csvPc = "rows"
  /\ \A r \in 1..Len(csvRows) : isQuote(csvRows[r])
  /\ csvEscaped' = [r \in 1..Len(csvRows) |->
                      [k \in 1..3 |-> quotesEscapeCsvValue(csvRows[r][k])]]
  /\ csvText' = csvHeader
                 \o join([r \in 1..Len(csvRows) |->
                            join([k \in 1..3 |-> quotesEscapeCsvValue(csvRows[r][k])],
                                 <<",">>)], <<"\n">>)
  /\ csvPc' = "quotes"
  /\ UNCHANGED <<pipelineVars, csvRows, csvParsed>>

\* parseCSV on the text that WriteCsv has written
ParseCsv ==
  /\ csvPc = "written"
  /\ csvParsed' = parseCSV(csvText)
  /\ csvPc' = "parsed"
  /\ UNCHANGED <<pipelineVars, csvRows, csvEscaped, csvText>>

CsvNext ==
  \/ AddRow
  \/ AddField
  \/ WriteCsv
  \/ WriteQuotesCsv
  \/ ParseCsv

CsvSpec == Init /\ [][CsvNext]_vars

(***************************************************************************)
(* extract-quotes: the chunk planner.                                      *)
(***************************************************************************)
RECURSIVE splitScan(_, _, _, _)
splitScan(text, k, piece, out) ==
  IF k > Len(text) THEN Append(out, piece)
  ELSE IF k + 1 <= Len(text) /\ text[k] = "\n" /\ text[k + 1] = "\n"
  THEN splitScan(text, k + 2, <<>>, Append(out, piece))
  ELSE splitScan(text, k + 1, Append(piece, text[k]), out)

\* text.split('\n\n')
split(text) == splitScan(text, 1, <<>>, <<>>)

\* p => p.trim().length > 0
nonBlank(p) == Len(trim(p)) > 0

\* fileContent.split('\n\n').filter(p => p.trim().length > 0)
paragraphsOf(content) == SelectSeq(split(content), nonBlank)

\* currentChunk.length + paragraph.length > maxChunkSize && currentChunk.length > 0
closesChunk(currentChunk, paragraph) ==
  Len(currentChunk) + Len(paragraph) > maxChunkSize /\ Len(currentChunk) > 0

\* a planner that starts the next chunk empty
startEmpty(currentChunk, paragraph) == <<>>

\* currentChunk = paragraph
startWith(currentChunk, paragraph) == paragraph

\* currentChunk += (currentChunk ? '\n\n' : '') + paragraph
appendTo(currentChunk, paragraph) ==
  currentChunk \o (IF currentChunk # <<>> THEN <<"\n", "\n">> ELSE <<>>) \o paragraph

RECURSIVE planScan(_, _, _, _)
planScan(paragraphs, k, currentChunk, planned) ==
  IF k > Len(paragraphs)
  THEN IF trim(currentChunk) # <<>> THEN Append(planned, trim(currentChunk)) ELSE planned
  ELSE IF closesChunk(currentChunk, paragraphs[k])
  THEN planScan(paragraphs, k + 1, startWith(currentChunk, paragraphs[k]),
                Append(planned, trim(currentChunk)))
  ELSE planScan(paragraphs, k + 1, appendTo(currentChunk, paragraphs[k]), planned)

\* the chunks of one file
planChunks(content) == planScan(paragraphsOf(content), 1, <<>>, <<>>)

(***************************************************************************)
(* extract-quotes: inputs.                                                 *)
(***************************************************************************)
\* what stands between two blank lines of a text file: one character, three, more
\* than a chunk is aimed at, only a blank, and a piece with a line feed before
\* and a blank after its text
Pieces == { <<"a">>, <<"a", "b", "c">>, <<"a", "b", "c", "d", "e">>, <<" ">>,
            <<"\n", "b", " ">> }

RECURSIVE TextsOf(_)
\* the texts of n pieces
TextsOf(n) ==
  IF n = 1 THEN Pieces
  ELSE {t \o <<"\n", "\n">> \o p : t \in TextsOf(n - 1), p \in Pieces}

ExtractTexts == {<<>>} \cup UNION {TextsOf(n) : n \in 1..MaxParagraphs}

\* file.data: the base64 of a text, or data that atob rejects
FileData == {encodeBase64(t) : t \in ExtractTexts} \cup {<<"%">>}

\* atob(file.data) returns
decodes(data) == data # <<>> /\ Head(data) = "base64:"

\* file.name of the k-th file of a request
fileNameOf(k) == <<"t", Digit[k]>>

\* one element of the array the endpoint answers with
Item(kind, quoteIsString, quote, context) ==
  [kind |-> kind, quoteIsString |-> quoteIsString, quote |-> quote, context |-> context]

\* a null, an object whose quote is a number, an object whose quote is blank, and
\* an object with a quote and a context that have blanks around them
Items == << Item("null", FALSE, <<>>, <<>>), Item("object", FALSE, <<>>, <<>>),
            Item("object", TRUE, <<" ", " ">>, <<>>),
            Item("object", TRUE, <<" ", "q">>, <<"c", " ">>) >>

\* choices[0].message.content: prose, a JSON object or a JSON array, as it is or
\* in a fenced code block
Answer(shape, fenced, items) == [shape |-> shape, fenced |-> fenced, items |-> items]
Answers == { Answer("prose", FALSE, <<>>), Answer("object", FALSE, <<>>),
             Answer("object", TRUE, <<>>), Answer("array", FALSE, Items),
             Answer("array", TRUE, SubSeq(Items, 3, 4)) }

\* how one request of extract-quotes ends: fetch rejects, the status is not 2xx,
\* the body has no choices[0].message.content, or the body holds an answer
ExtractOutcomes ==
  {[kind |-> k, answer |-> Answer("prose", FALSE, <<>>)] : k \in {"network", "http", "nocontent"}}
  \cup {[kind |-> "ok", answer |-> a] : a \in Answers}

(***************************************************************************)
(* extract-quotes: the serve handler.                                      *)
(***************************************************************************)
\* content.match(/```(?:json)?\s*(\[[\s\S]*?\])\s*```/): the array of a fenced block
jsonContent(answer) ==
  IF answer.fenced /\ answer.shape = "array" THEN [answer EXCEPT !.fenced = FALSE] ELSE answer

\* JSON.parse(jsonContent) returns
parses(answer) == answer.shape # "prose" /\ ~answer.fenced

\* Array.isArray(quotes)
isArray(answer) == answer.shape = "array"

\* q && typeof q === 'object' && typeof q.quote === 'string' && q.quote.trim().length > 10
validQuote(q) ==
  q.kind = "object" /\ q.quoteIsString /\ Len(trim(q.quote)) > minQuoteLength

\* a chunk length test that lets every chunk through
neverTooShort(chunk) == FALSE

\* chunk.length < 100
tooShort(chunk) == Len(chunk) < minChunkLength

\* the request of a chunk could not be used: it threw, its status was not 2xx, its
\* answer did not parse or was not an array
unusable(outcome) ==
  outcome.kind # "ok" \/ ~parses(jsonContent(outcome.answer))
  \/ ~isArray(jsonContent(outcome.answer))

\* the quotes one request adds to allQuotes
quotesOf(outcome, source) ==
  IF unusable(outcome) THEN <<>>
  ELSE LET validQuotes == SelectSeq(jsonContent(outcome.answer).items, validQuote)
       IN [k \in 1..Len(validQuotes) |->
             [source |-> source, quote |-> trim(validQuotes[k].quote),
              context |-> trim(validQuotes[k].context)]]

\* a handler whose chunk errors reach the outer catch
rethrowFetchError == "failing"

\* the catch blocks of the chunk loop end the chunk's iteration
afterFetchError == "chunk"

\* the quotes CSV: header and one line per quote
quotesCsv(quotes) ==
  csvHeader
  \o join([k \in 1..Len(quotes) |->
             join(<<quotesEscapeCsvValue(quotes[k].source),
                    quotesEscapeCsvValue(quotes[k].quote),
                    quotesEscapeCsvValue(quotes[k].context)>>, <<",">>)], <<"\n">>)

otherVars == <<submitted, request, jobVars, localVars, historyVars, directVars, statusVars,
               csvVars, unanswered, labelVars, scanVars>>

\* a request arrives: without an API key it throws to the outer catch
ExtractQuotes ==
  /\ extractPc = "idle"
  /\ \E apiKey \in ApiKeys, files \in 0..MaxFiles :
       /\ fileCount' = files
       /\ extractPc' = IF apiKey = <<>> THEN "failing" ELSE "file"
  /\ UNCHANGED <<otherVars, fileIndex, fileContent, chunks, chunkNo, allQuotes,
                 extractResponse, lastOutcome, quoteOrigins, sent>>

\* the file loop takes the next file, decodes it and plans its chunks; a file
\* that does not decode is logged and left
NextFile ==
  /\ extractPc = "file"
  /\ fileIndex < fileCount
  /\ \E data \in FileData :
       IF decodes(data)
       THEN /\ fileContent' = decodeBase64(data)
            /\ chunks' = planChunks(decodeBase64(data))
            /\ chunkNo' = 0
            /\ extractPc' = "chunk"
            /\ UNCHANGED fileIndex
       ELSE /\ fileIndex' = fileIndex + 1
            /\ UNCHANGED <<fileContent, chunks, chunkNo, extractPc>>
  /\ UNCHANGED <<otherVars, fileCount, allQuotes, extractResponse, lastOutcome,
                 quoteOrigins, sent>>

\* the head of the chunk loop: the file is done, the chunk is skipped, or its
\* request is sent
ExtractChunkLoop ==
  /\ extractPc = "chunk"
  /\ IF chunkNo >= Len(chunks)
     THEN /\ fileIndex' = fileIndex + 1
          /\ extractPc' = "file"
          /\ UNCHANGED <<chunkNo, sent>>
     ELSE IF tooShort(chunks[chunkNo + 1])
     THEN /\ chunkNo' = chunkNo + 1
          /\ UNCHANGED <<fileIndex, extractPc, sent>>
     ELSE /\ extractPc' = "fetch"
          /\ sent' = sent \cup {Len(chunks[chunkNo + 1])}
          /\ UNCHANGED <<fileIndex, chunkNo>>
  /\ UNCHANGED <<otherVars, fileCount, fileContent, chunks, allQuotes, extractResponse,
                 lastOutcome, quoteOrigins>>

\* the request of a chunk ends: its valid quotes are collected, or nothing is
FetchDone ==
  /\ extractPc = "fetch"
  /\ \E outcome \in ExtractOutcomes :
       LET found == quotesOf(outcome, fileNameOf(fileIndex + 1))
       IN /\ lastOutcome' = outcome
          /\ allQuotes' = allQuotes \o found
          /\ quoteOrigins' = quoteOrigins \o [k \in 1..Len(found) |-> Len(chunks[chunkNo + 1])]
          /\ extractPc' = IF unusable(outcome) THEN afterFetchError ELSE "chunk"
          /\ chunkNo' = chunkNo + 1
  /\ UNCHANGED <<otherVars, fileCount, fileIndex, fileContent, chunks, extractResponse, sent>>

\* after the last file: the quotes CSV is built and returned
ExtractRespond ==
  /\ extractPc = "file"
  /\ fileIndex >= fileCount
  /\ extractResponse' = [status |-> 200, success |-> TRUE,
                         extractedQuotes |-> Len(allQuotes),
                         downloadData |-> encodeBase64(quotesCsv(allQuotes))]
  /\ extractPc' = "done"
  /\ UNCHANGED <<otherVars, fileCount, fileIndex, fileContent, chunks, chunkNo, allQuotes,
                 lastOutcome, quoteOrigins, sent>>

\* the outer catch
ExtractFail ==
  /\ extractPc = "failing"
  /\ extractResponse' = [NoExtractResponse EXCEPT !.status = 500]
  /\ extractPc' = "done"
  /\ UNCHANGED <<otherVars, fileCount, fileIndex, fileContent, chunks, chunkNo, allQuotes,
                 lastOutcome, quoteOrigins, sent>>

ExtractNext ==
  \/ ExtractQuotes
  \/ NextFile
  \/ ExtractChunkLoop
  \/ FetchDone
  \/ ExtractRespond
  \/ ExtractFail

ExtractSpec == Init /\ [][ExtractNext]_vars

(***************************************************************************)
(* The label editor and the label matcher on their own: a label list is    *)
(* put together as the editor does, and one response is matched against it.*)
(***************************************************************************)
\* what a user types into the label editor
LabelInputs == { <<>>, <<" ">>, <<"a">>, <<" ", "b">>, <<"A", "b">>, <<"B">> }

\* what the endpoint answers
Responses == { <<>>, <<"a">>, <<"B", "\n">>, <<" ", "a", "b">>, <<"A", "B">>, <<"x">>,
               <<"x", " ", "b">>, <<"b", "a">> }

notLabelVars == <<submitted, request, jobVars, localVars, historyVars, directVars, statusVars,
                  csvVars, extractVars, unanswered, scanVars>>

\* LabelInput addLabel: the trimmed input is added unless it is empty or in the list
addLabel ==
  /\ labelPc = "labels"
  /\ Len(labelList) < MaxLabels
  /\ \E inputValue \in LabelInputs :
       LET trimmedValue == trim(inputValue)
       IN /\ trimmedValue # <<>>
          /\ \A k \in 1..Len(labelList) : labelList[k] # trimmedValue
          /\ labelList' = Append(labelList, trimmedValue)
  /\ UNCHANGED <<notLabelVars, responseText, chosen, labelPc>>

\* the per-row handler on a response of the endpoint, for a list the run button
\* accepts (labels.length > 0)
SelectLabel ==
  /\ labelPc = "labels"
  /\ Len(labelList) > 0
  /\ \E content \in Responses :
       /\ responseText' = content
       /\ chosen' = classifyRow(2, <<>>, labelList, Outcome("ok", content)).label
  /\ labelPc' = "selected"
  /\ UNCHANGED <<notLabelVars, labelList>>

LabelNext ==
  \/ addLabel
  \/ SelectLabel

LabelSpec == Init /\ [][LabelNext]_vars

(***************************************************************************)
(* parseCSV character by character: the locals of its scan loop.           *)
(***************************************************************************)
ScanChars == {"a", "\"", ",", "\n"}

\* the texts of up to MaxTextLen characters
ScanTexts == UNION {[1..n -> ScanChars] : n \in 0..MaxTextLen}

notScanVars == <<submitted, request, jobVars, localVars, historyVars, directVars, statusVars,
                 csvVars, extractVars, unanswered, labelVars>>

\* text[i]
char == IF scanI + 1 <= Len(scanText) THEN scanText[scanI + 1] ELSE NULL

\* text[i + 1]
nextChar == IF scanI + 2 <= Len(scanText) THEN scanText[scanI + 2] ELSE NULL

\* parseCSV is called on a text
ScanStart ==
  /\ scanPc = "text"
  /\ \E text \in ScanTexts : scanText' = text
  /\ scanPc' = "scan"
  /\ UNCHANGED <<notScanVars, scanI, scanRow, scanField, scanInQuotes, scanResult>>

\* one turn of while (i < text.length)
ScanChar ==
  /\ scanPc = "scan"
  /\ scanI < Len(scanText)
  /\ IF char = "\""
     THEN IF escapedQuote(scanInQuotes, nextChar)
          THEN /\ scanField' = Append(scanField, "\"")
               /\ scanI' = scanI + 2
               /\ UNCHANGED <<scanRow, scanInQuotes, scanResult>>
          ELSE /\ scanInQuotes' = ~scanInQuotes
               /\ scanI' = scanI + 1
               /\ UNCHANGED <<scanRow, scanField, scanResult>>
     ELSE IF char = "," /\ ~scanInQuotes
     THEN /\ scanRow' = Append(scanRow, trim(scanField))
          /\ scanField' = <<>>
          /\ scanI' = scanI + 1
          /\ UNCHANGED <<scanInQuotes, scanResult>>
     ELSE IF char \in {"\n", "\r"} /\ ~scanInQuotes
     THEN LET flush == scanField # <<>> \/ Len(scanRow) > 0
              endedRow == Append(scanRow, trim(scanField))
          IN /\ scanResult' = IF flush /\ someNonEmpty(endedRow)
                              THEN Append(scanResult, endedRow) ELSE scanResult
             /\ scanRow' = IF flush THEN <<>> ELSE scanRow
             /\ scanField' = IF flush THEN <<>> ELSE scanField
             /\ scanI' = scanI + 1 + (IF char = "\r" /\ nextChar = "\n" THEN 1 ELSE 0)
             /\ UNCHANGED scanInQuotes
     ELSE /\ scanField' = Append(scanField, char)
          /\ scanI' = scanI + 1
          /\ UNCHANGED <<scanRow, scanInQuotes, scanResult>>
  /\ UNCHANGED <<notScanVars, scanText, scanPc>>

\* after the loop: the last row is pushed and the rows without a field are dropped
ScanEnd ==
  /\ scanPc = "scan"
  /\ scanI >= Len(scanText)
  /\ LET flush == scanField # <<>> \/ Len(scanRow) > 0
         lastRow == Append(scanRow, trim(scanField))
     IN scanResult' = SelectSeq(IF flush /\ someNonEmpty(lastRow)
                                THEN Append(scanResult, lastRow) ELSE scanResult,
                                someNonEmpty)
  /\ scanPc' = "done"
  /\ UNCHANGED <<notScanVars, scanText, scanI, scanRow, scanField, scanInQuotes>>

ScanNext ==
  \/ ScanStart
  \/ ScanChar
  \/ ScanEnd

ScanSpec == Init /\ [][ScanNext]_vars

(***************************************************************************)
(* Properties.                                                             *)
(***************************************************************************)
Range(f) == {f[x] : x \in DOMAIN f}

\* the steps that the fairness condition is about are the steps of processJob
FairnessIsOfProcessJob ==
  [][(processJobGoesOn /\ <<pc, pending>>' # <<pc, pending>>) <=> processJobStep]_vars

HasJob == Len(processing_jobs) > 0
stored == processing_jobs[1]

\* the data rows of the file, as processJob parsed them at its start
jobDataRows == Tail(rows)

\* the data rows of a stored result CSV
resultDataRows(j) == Tail(parseCSV(decodeBase64(j.result_data)))

\* chunk (by its startRow) of a 0-based data row
chunkOf(r) == (r \div chunkSize) * chunkSize

\* a result for data row r (0-based) of the file, at absolute row offset + r + 2
ResultOfRow(res, dataRows, r) ==
  /\ res.row = r + 2
  /\ res.originalRow = dataRows[r + 1]

\* C1: a row whose request fails still gets exactly one result, with the row's
\* original fields and the first label, and no row of its batch loses its result:
\* while a batch is awaited every settled request has its own row's result, and
\* after each batch the results so far are one per row, in row order
C1_FailedRowFallsBack ==
  /\ pc = "await" =>
       \A b \in DOMAIN batchResults :
         /\ ResultOfRow(batchResults[b], jobDataRows, startRow + i + b)
         /\ b \in batchFailed => batchResults[b].label = job.labels[1]
  /\ pc = "batches" =>
       /\ Len(results) = Min(i, Len(chunkRows))
       /\ \A k \in 1..Len(results) : ResultOfRow(results[k], jobDataRows, startRow + k - 1)
  /\ dpc = "await" =>
       \A b \in DOMAIN dBatchResults :
         /\ ResultOfRow(dBatchResults[b], Tail(dRows), dI + b)
         /\ b \in dBatchFailed => dBatchResults[b].label = dLabels[1]
  /\ dpc = "batches" =>
       /\ Len(dResults) = Min(dI, Len(dRows) - 1)
       /\ \A k \in 1..Len(dResults) : ResultOfRow(dResults[k], Tail(dRows), k - 1)

\* C1 witness: a batch has been pushed in which one request failed and its sibling
\* was matched to another label than the fallback
C1_Witness ==
  /\ pc = "batches"
  /\ Len(results) = batchSize
  /\ batchFailed # {}
  /\ \E k \in 1..Len(results) : results[k].label # job.labels[1]

positionsOf(outRow, dataRows) ==
  {k \in 1..Len(dataRows) : dataRows[k] = SubSeq(outRow, 1, Len(outRow) - 1)}

\* C4: the data rows of a completed job's CSV are input rows in ascending original
\* index, each at most once (read whenever a processJob has ended: only its
\* completion write stores a CSV)
C4_RowsAscending ==
  (pc = "done" /\ HasJob /\ stored.status = "completed") =>
    LET out == resultDataRows(stored)
        data == Tail(parseCSV(decodeBase64(stored.file_data)))
    IN /\ \A k \in 1..Len(out) : Cardinality(positionsOf(out[k], data)) = 1
       /\ \A k, m \in 1..Len(out) :
            k < m => \A a \in positionsOf(out[k], data), b \in positionsOf(out[m], data) : a < b

\* C4 witness: a completed job whose CSV holds the rows of more than one chunk
C4_Witness ==
  /\ pc = "done"
  /\ HasJob
  /\ stored.status = "completed"
  /\ Len(resultDataRows(stored)) > chunkSize

\* C2 (as claimed): a completed job has one output row per data row and
\* processed_rows = total_rows
C2_CompletedHasEveryRow ==
  (HasJob /\ stored.status = "completed") =>
    /\ stored.processed_rows = stored.total_rows
    /\ Len(resultDataRows(stored)) = stored.total_rows

\* C5 (as claimed): no write lowers processed_rows
C5_ProcessedRowsMonotonic ==
  [][(HasJob /\ Len(processing_jobs') > 0) =>
       processing_jobs'[1].processed_rows >= stored.processed_rows]_vars

\* C6 (as claimed): nothing writes the record of a completed or failed job
C6_TerminalNeverWritten ==
  [][(HasJob /\ stored.status \in {"completed", "failed"}) =>
       processing_jobs' = processing_jobs]_vars

\* C7 (as claimed): status changes only pending -> processing -> completed | failed
C7_StatusTransitions ==
  [][(HasJob /\ Len(processing_jobs') > 0 /\ processing_jobs'[1].status # stored.status) =>
       <<stored.status, processing_jobs'[1].status>> \in
          {<<"pending", "processing">>, <<"processing", "completed">>,
           <<"processing", "failed">>}]_vars

rowsOfKeptChunks == {r \in 0..(job.total_rows - 1) : chunkOf(r) \notin skipped}

C10_ChunkErrorSkipsChunk ==
  /\ [](pc = "assemble" =>
          {r.row - 2 : r \in Range(allResults)} = rowsOfKeptChunks)
  /\ [][skipped' # skipped /\ skipped' # {} =>
          /\ pc' = "chunks"
          /\ startRow' = startRow + chunkSize
          /\ allResults' = allResults
          /\ processing_jobs' = processing_jobs]_vars
  /\ [][(skipped # {} /\ HasJob /\ processing_jobs'[1].status = "failed") =>
          stored.status = "failed"]_vars

\* C10 witness: the first chunk threw and the rows of the next chunk are in the
\* results
C10_Witness ==
  /\ pc = "assemble"
  /\ skipped = {0}
  /\ Len(allResults) > 0

\* C11 (as claimed): a processJob during which a call to the job store failed ends
\* with the job's status failed and an error message stored (read at the end of
\* the first invocation of a job that was inserted, so that every failed store
\* call counted is one of that processJob)
C11_StoreErrorFailsJob ==
  (pc = "done" /\ HasJob /\ invocations = 1 /\ storeErrors > 0) =>
    /\ stored.status = "failed"
    /\ stored.error_message # NULL

\* C12: failed or timed-out row requests never fail the job. The outer catch is
\* entered only before any request is sent; the step in which a request fails
\* stays in the batch and writes nothing to the job; the failed rows of a batch are
\* in the chunk's results with the first label; an invocation in which no chunk
\* threw and no store call failed ends with the job completed and
\* processed_rows = total_rows, whatever number of its requests failed; and after
\* a failed request the invocation does reach its end
C12_RowFailuresNeverFailJob ==
  /\ [](pc = "failing" => dispatched = {})
  /\ [][(batchFailed' # batchFailed /\ batchFailed' # {}) =>
          /\ pc' = "await"
          /\ processing_jobs' = processing_jobs]_vars
  /\ []((pc = "batches" /\ i > 0) =>
          \A b \in batchFailed :
            /\ results[i - batchSize + b + 1].row = startRow + i - batchSize + b + 2
            /\ results[i - batchSize + b + 1].label = job.labels[1])
  /\ []((pc = "done" /\ HasJob /\ dispatched # {} /\ skipped = {} /\ storeErrors = 0) =>
          /\ stored.status = "completed"
          /\ stored.processed_rows = stored.total_rows)
  /\ (pc = "await" /\ batchFailed # {}) ~> (pc = "done")

\* C12 witness: a job of more than one chunk is completed with every row counted,
\* and every request of its last batch failed
C12_Witness ==
  /\ pc = "done"
  /\ HasJob
  /\ stored.status = "completed"
  /\ stored.total_rows > chunkSize
  /\ stored.processed_rows = stored.total_rows
  /\ skipped = {}
  /\ batchFailed # {}

\* C13 (as claimed): every job that queue-job has inserted eventually has status
\* completed or failed
C13_EveryJobTerminates ==
  HasJob ~> (HasJob /\ stored.status \in {"completed", "failed"})

\* the error a submission without key or without data row is answered with
rejection(req) ==
  IF req.apiKey = <<>> THEN "OpenAI API key is required"
  ELSE "File must contain at least a header row and one data row"

\* C14: a submission without API key, or whose file parses to fewer than 2 rows,
\* is answered with the error of its defect, and neither path does anything else
\* for it: no job record, no process-queue invocation, no request to the endpoint
C14_RejectedBeforeAnyWork ==
  (request.path # "none"
   /\ (request.apiKey = <<>> \/ request.rowCount < 2)) =>
    /\ ~HasJob
    /\ invocations = 0
    /\ pc = "idle"
    /\ dispatched = {}
    /\ dpc \in {"idle", "done"}
    /\ dPending = {}
    /\ dBatchResults = <<>>
    /\ dResults = <<>>
    /\ request.path = "queue" =>
         /\ queueResponse = errorResponse(500, rejection(request))
         /\ dResponse = NoResponse
    /\ request.path = "direct" =>
         /\ dResponse = errorResponse(500, rejection(request))
         /\ queueResponse = NoResponse

\* C14 witness: queue-job has answered a keyed submission of a file with only a
\* header
C14_Witness ==
  /\ request.path = "queue"
  /\ request.apiKey # <<>>
  /\ request.rowCount = 1
  /\ queueResponse.status = 500
  /\ ~HasJob

\* C15 (as claimed): on both paths a keyed submission of a file named .xlsx or
\* .xls is answered with the convert-to-CSV error, and no job is created and no
\* request is sent for it (read while no call to the job store has failed)
C15_ExcelRejectedOnEveryPath ==
  (request.path # "none" /\ request.apiKey # <<>> /\ isExcel(request.fileName)
   /\ storeErrors = 0) =>
    /\ ~HasJob
    /\ invocations = 0
    /\ dispatched = {}
    /\ dPending = {}
    /\ dResults = <<>>
    /\ request.path = "queue" =>
         queueResponse = errorResponse(400, "Excel files are not fully supported yet")
    /\ request.path = "direct" =>
         dResponse = errorResponse(400, "Excel files are not fully supported yet")

\* a row the round trip is claimed for: trimmed fields, one of them not empty
isTrimmedRow(row) == someNonEmpty(row) /\ \A k \in 1..Len(row) : trim(row[k]) = row[k]

\* C16: rows of trimmed fields, each row with a non-empty field, come back from
\* parseCSV exactly as they were given to the writer
C16_WriteParseRoundTrip ==
  (csvPc = "parsed" /\ \A r \in 1..Len(csvRows) : isTrimmedRow(csvRows[r])) =>
    csvParsed = csvRows

\* C16 witness: two rows have come back, with a quote, a comma and a line break
\* among their fields
C16_Witness ==
  /\ csvPc = "parsed"
  /\ Len(csvRows) = 2
  /\ \A r \in 1..Len(csvRows) : isTrimmedRow(csvRows[r])
  /\ \E r \in 1..2 : \E k \in 1..Len(csvRows[r]) : includes(csvRows[r][k], <<"\"">>)
  /\ \E r \in 1..2 : \E k \in 1..Len(csvRows[r]) : includes(csvRows[r][k], <<"\n">>)
  /\ csvParsed = csvRows

\* a value with a comma, a double quote, CR, LF, or leading or trailing whitespace
needsQuoting(value) ==
  \/ \E k \in 1..Len(value) : value[k] \in {",", "\"", "\n", "\r"}
  \/ value # <<>> /\ (value[1] \in Whitespace \/ value[Len(value)] \in Whitespace)

RECURSIVE undoubled(_)
\* a text with each pair of double quotes read as one; a quote without its pair
\* is read as the mark "?"
undoubled(s) ==
  IF s = <<>> THEN <<>>
  ELSE IF Head(s) # "\"" THEN <<Head(s)>> \o undoubled(Tail(s))
  ELSE IF Len(s) >= 2 /\ s[2] = "\"" THEN <<"\"">> \o undoubled(Tail(Tail(s)))
  ELSE <<"?">>

\* escaped is value between double quotes, with every quote of value doubled
isQuoted(escaped, value) ==
  /\ Len(escaped) >= 2
  /\ escaped[1] = "\""
  /\ escaped[Len(escaped)] = "\""
  /\ undoubled(SubSeq(escaped, 2, Len(escaped) - 1)) = value

\* C17 (as claimed): in the CSV of either writer, a field without comma, double
\* quote, CR, LF and leading or trailing whitespace is written as it is, and any
\* other field between double quotes with its quotes doubled
C17_EscapedWhenNeeded ==
  csvPc \in {"written", "quotes"} =>
    \A r \in 1..Len(csvRows) : \A k \in 1..Len(csvRows[r]) :
      IF needsQuoting(csvRows[r][k])
      THEN isQuoted(csvEscaped[r][k], csvRows[r][k])
      ELSE csvEscaped[r][k] = csvRows[r][k]

\* the fields of an output row before its last one
originalFields(outRow) == SubSeq(outRow, 1, Len(outRow) - 1)

\* C18: the output CSV, read back, has the header's fields followed by 'Label',
\* and in each data row the fields of one data row of the file, unchanged and in
\* their order, followed by one of the labels; on the direct path row k of the
\* output is row k of the file followed by the label of its result
C18_CsvKeepsOriginalFields ==
  /\ (pc = "done" /\ HasJob /\ stored.status = "completed") =>
       LET out == parseCSV(decodeBase64(stored.result_data))
           file == parseCSV(decodeBase64(stored.file_data))
       IN /\ out[1] = Append(file[1], <<"L", "a", "b", "e", "l">>)
          /\ \A k \in 2..Len(out) :
               /\ originalFields(out[k]) \in Range(Tail(file))
               /\ out[k][Len(out[k])] \in Range(stored.labels)
  /\ (dpc = "done" /\ dResponse.success) =>
       LET out == parseCSV(decodeBase64(dResponse.body))
       IN /\ Len(out) = Len(dRows)
          /\ out[1] = Append(dRows[1], <<"L", "a", "b", "e", "l">>)
          /\ \A k \in 2..Len(out) : out[k] = Append(dRows[k], dResults[k - 1].label)

\* C18 witness: a completed job's CSV has a row for every data row of a file of
\* more than one chunk, one of them with a comma in a field
C18_Witness ==
  /\ pc = "done"
  /\ HasJob
  /\ stored.status = "completed"
  /\ stored.total_rows = MaxRows
  /\ LET out == parseCSV(decodeBase64(stored.result_data))
     IN /\ Len(out) = MaxRows + 1
        /\ \E k \in 2..Len(out) : \E f \in 1..Len(out[k]) : includes(out[k][f], <<",">>)

\* C19: the stored processed_rows of a job never exceeds its total_rows
C19_ProcessedAtMostTotal ==
  HasJob => stored.processed_rows <= stored.total_rows

\* C19 witness: the last chunk of a job is shorter than chunkSize and its
\* progress has been written: processed_rows has reached total_rows
C19_Witness ==
  /\ HasJob
  /\ pc = "chunks"
  /\ stored.total_rows % chunkSize # 0
  /\ startRow > stored.total_rows
  /\ stored.processed_rows = stored.total_rows

\* C20: a job-status response carries a result only for a completed job: for a
\* pending, processing or failed job its resultData is null, also when the job's
\* record still holds the result of an earlier invocation
C20_ResultOnlyWhenCompleted ==
  statusResponse.success =>
    /\ statusResponse.resultData # <<>> => statusResponse.status = "completed"
    /\ statusResponse.status \in {"pending", "processing", "failed"} =>
         /\ statusResponse.resultData = <<>>
         /\ ~statusResponse.downloadReady

\* C20 witness: the status was asked for while a second invocation was processing
\* a job whose record holds the result of the first, and the response has no result
C20_Witness ==
  /\ statusResponse.success
  /\ statusResponse.status = "processing"
  /\ statusResponse.resultData = <<>>
  /\ HasJob
  /\ stored.status = "processing"
  /\ stored.result_data # <<>>

\* C21: every chunk the planner produces for a file is within the target size
\* (at most maxChunkSize characters), whatever the text and its paragraphs
C21_ChunksWithinTarget ==
  \A k \in 1..Len(chunks) : Len(chunks[k]) <= maxChunkSize

\* C22: every quote of allQuotes is longer than the minimum and was found in a
\* chunk of at least the minimum chunk length, and no request is ever sent for a
\* shorter chunk
C22_QuotesLongFromLongChunks ==
  /\ Len(quoteOrigins) = Len(allQuotes)
  /\ \A k \in 1..Len(allQuotes) :
       /\ Len(allQuotes[k].quote) > minQuoteLength
       /\ quoteOrigins[k] >= minChunkLength
  /\ \A n \in sent : n >= minChunkLength
  /\ extractPc = "fetch" => Len(chunks[chunkNo + 1]) >= minChunkLength

\* a short chunk has been passed over, and a request whose answer held a blank
\* quote next to a good one has added to allQuotes
C22_Witness ==
  /\ \E k \in 1..chunkNo : k <= Len(chunks) /\ Len(chunks[k]) < minChunkLength
  /\ allQuotes # <<>>
  /\ lastOutcome.kind = "ok"
  /\ Len(lastOutcome.answer.items) > Len(SelectSeq(lastOutcome.answer.items, validQuote))
  /\ extractPc = "chunk"

\* C23: a chunk whose request throws, whose status is not 2xx, or whose answer
\* is not JSON or not an array adds no quote; the handler goes on with the next
\* chunk of the same file, keeps the quotes it has, and only a request without
\* an API key is answered with an error
C23_FailedChunkAddsNothing ==
  /\ [][(extractPc = "fetch" /\ extractPc' # "fetch" /\ unusable(lastOutcome'))
          => /\ allQuotes' = allQuotes
             /\ extractPc' = "chunk"
             /\ chunkNo' = chunkNo + 1
             /\ chunks' = chunks
             /\ fileIndex' = fileIndex]_vars
  /\ [](extractPc = "done" /\ lastOutcome.kind # "none"
          => /\ extractResponse.status = 200
             /\ extractResponse.extractedQuotes = Len(allQuotes)
             /\ fileIndex = fileCount)

\* the last request of a run failed, and the response still holds the quotes
\* of the requests before it
C23_Witness ==
  /\ extractPc = "done"
  /\ lastOutcome.kind # "none"
  /\ unusable(lastOutcome)
  /\ extractResponse.success
  /\ extractResponse.extractedQuotes > 0

RECURSIVE piecesOf(_)
\* the pieces between blank lines of a sequence of chunks, in order
piecesOf(cs) == IF cs = <<>> THEN <<>> ELSE split(Head(cs)) \o piecesOf(Tail(cs))

\* the texts of a sequence of pieces without the white space around each
trimmed(ps) == [k \in 1..Len(ps) |-> trim(ps[k])]

\* C30: the chunks planned for a file, taken in order, hold every non-blank
\* paragraph of the file exactly once and in the order of the file (white space
\* at the ends of a paragraph aside)
C30_EveryParagraphOnce ==
  trimmed(piecesOf(chunks)) = trimmed(paragraphsOf(fileContent))

\* a file of three pieces, one of them blank, has been planned as two chunks
C30_Witness ==
  /\ Len(split(fileContent)) = 3
  /\ Len(paragraphsOf(fileContent)) = 2
  /\ Len(chunks) = 2
  /\ extractPc = "chunk"

\* C24: on both classification paths a request that the endpoint never answers
\* is ended by its timeout and gives the fallback result of its row, and every
\* batch that is awaited finishes
C24_EveryRequestTimesOut ==
  /\ [][\A b \in pending :
          (pc = "await" /\ <<"queue", b>> \in unanswered /\ b \notin pending' /\ pc' = "await")
            => batchResults'[b] = fallbackResult(absoluteRowIndex(startRow, i, b),
                                                 chunkRows[i + b + 1], job.labels)]_vars
  /\ (pc = "await") ~> (pc # "await")
  /\ (dpc = "await") ~> (dpc # "await")

\* process-queue on its own: a request that is never answered ends as the
\* fallback result of its row, and the batch that is awaited finishes
QueueBatchFinishes ==
  /\ [][\A b \in pending :
          (pc = "await" /\ <<"queue", b>> \in unanswered /\ b \notin pending' /\ pc' = "await")
            => batchResults'[b] = fallbackResult(absoluteRowIndex(startRow, i, b),
                                                 chunkRows[i + b + 1], job.labels)]_vars
  /\ (pc = "await") ~> (pc # "await")

\* C25: the requests in flight of one invocation are never more than the batch
\* size of its path, and the requests of a batch are only issued when no request
\* of the batch before is in flight and all its results have been taken
C25_BoundedInFlight ==
  /\ [](Cardinality(pending) <= batchSize /\ Cardinality(dPending) <= directBatchSize)
  /\ [][(pending' \ pending # {}) =>
          (pending = {} /\ Len(results) = i /\ DOMAIN batchResults' = {})]_vars
  /\ [][(dPending' \ dPending # {}) =>
          (dPending = {} /\ Len(dResults) = dI /\ DOMAIN dBatchResults' = {})]_vars

\* the second batch of a chunk is in flight, after the results of the whole
\* first batch have been taken
C25_Witness ==
  /\ pc = "await"
  /\ i = batchSize
  /\ Len(results) = batchSize
  /\ pending # {}

\* C26: after every progress write of a run in which no store call has failed,
\* the stored processed_rows is the number of results accumulated so far in
\* allResults, and the stored status is processing
C26_ProgressIsCumulative ==
  [][(pc = "progress" /\ pc' = "chunks" /\ storeErrors' = 0)
       => /\ stored'.processed_rows = Len(allResults')
          /\ stored'.status = "processing"]_vars

\* the response as it is matched: trimmed and in lower case
matchedText == toLowerCase(trim(responseText))

\* label k of the list occurs in the response, case aside
occursIn(k) ==
  \E from \in 1..Len(matchedText), to \in 0..Len(matchedText) :
    SubSeq(matchedText, from, to) = toLowerCase(labelList[k])

\* C27: the selected label is the first label of the list that occurs in the
\* response, case aside, and the first label of the list when none occurs
C27_FirstMatchingLabel ==
  labelPc = "selected" =>
    \E k \in 1..Len(labelList) :
      /\ chosen = labelList[k]
      /\ \A m \in 1..(k - 1) : ~occursIn(m)
      /\ occursIn(k) \/ (k = 1 /\ \A m \in 1..Len(labelList) : ~occursIn(m))

\* the second label of a list was selected for a response in which it occurs
\* only in another case
C27_Witness ==
  /\ labelPc = "selected"
  /\ Len(labelList) = 2
  /\ chosen = labelList[2]
  /\ ~includes(trim(responseText), labelList[2])

\* C29: a response that is one of the labels, case and surrounding white space
\* aside, selects that label
C29_ExactLabelSelected ==
  labelPc = "selected" =>
    \A k \in 1..Len(labelList) :
      matchedText = toLowerCase(labelList[k]) => toLowerCase(chosen) = matchedText

\* the scan loop, turn by turn, returns what parseCSV returns
ScanIsParseCSV == scanPc = "done" => scanResult = parseCSV(scanText)

\* C28: in parseCSV a double quote that is followed by another double quote
\* appends one quote to the current field and moves the scan by two, and any
\* other double quote toggles inQuotes
C28_QuoteBeforeQuoteIsLiteral ==
  [][(scanPc = "scan" /\ scanI' # scanI /\ char = "\"")
       => IF nextChar = "\""
          THEN /\ scanField' = Append(scanField, "\"")
               /\ scanI' = scanI + 2
               /\ scanInQuotes' = scanInQuotes
          ELSE /\ scanInQuotes' = ~scanInQuotes
               /\ scanI' = scanI + 1
               /\ scanField' = scanField]_vars

\* C28 as amended: inside quotes a double quote that is followed by another
\* double quote appends one quote to the current field and moves the scan by
\* two; any other double quote, and so every one outside quotes, toggles inQuotes
C28_QuoteBeforeQuoteInsideQuotes ==
  [][(scanPc = "scan" /\ scanI' # scanI /\ char = "\"")
       => IF scanInQuotes /\ nextChar = "\""
          THEN /\ scanField' = Append(scanField, "\"")
               /\ scanI' = scanI + 2
               /\ scanInQuotes' = scanInQuotes
          ELSE /\ scanInQuotes' = ~scanInQuotes
               /\ scanI' = scanI + 1
               /\ scanField' = scanField]_vars

\* the scan has read an opening quote and then two quotes as one literal quote,
\* and is at the last quote of the text
C28_Witness ==
  /\ scanPc = "scan"
  /\ scanText = <<"\"", "\"", "\"", "\"">>
  /\ scanI = 3
  /\ scanInQuotes
  /\ scanField = <<"\"">>

=============================================================================
